---- MODULE Spec2Model ----
(***************************************************************************)
(* The upload / status / retrieval workflow of the Streamlit client        *)
(* (src/app.py).  One script run is: the optional "Process File" handler   *)
(* (lines 215-228) followed by the display loop over the session list      *)
(* (lines 231-271).  The backend is external: every answer it gives to a   *)
(* request is a nondeterministic choice.                                   *)
(***************************************************************************)
EXTENDS Integers, Sequences, FiniteSets, TLC

VARIABLES
    uploaded_files,   \* st.session_state.uploaded_files (lines 58-59)
    pc,               \* position of the script run: "idle", "uploaded", "display"
    idx,              \* position of the display loop in uploaded_files (line 241)
    upload,           \* the Process File handler's request, response and result
    shown             \* what the latest display-loop iteration did and rendered

vars == <<uploaded_files, pc, idx, upload, shown>>

\* Largest session list the model explores.
MaxFiles == 2

\* Python's None; formatting it into a URL yields the text "None".
None == "None"

\* Python truthiness of a string-or-None value (lines 219, 252).
Truthy(x) == x \notin {None, ""}

API_BASE_URL == "http://localhost:7000"

\* The status code every helper compares against (lines 86, 114, 122, 140).
HTTP_OK == 200

\* Options of the two selectboxes (lines 178, 202).
DocTypes == {"BRD", "SOW", "FRD"}
DocLevels == {"Simple", "Intermediate", "Advanced"}

\* Formats of the four download buttons (lines 256-262).
Formats == {"pdf", "docx", "html", "json"}

\* What the file uploader can hand over: a named file, possibly of 0 bytes
\* (the uploader filters on the extension only, line 193).
UploadedFiles == [name : {"demo.mp3"}, size : {0, 3}]

\* The values a backend can put under "file_id" in its JSON (None: key absent
\* or null).  Nothing in the client keeps two answers apart, so one id serves.
FileIdAnswers == {None, "abc123"}

----------------------------------------------------------------------------
(* The backend's possible answers.                                         *)

\* POST /upload: the call raises, or returns a status with a body that is
\* JSON or not; a JSON body carries "success" (absent, false or true) and
\* "file_id".
UploadResponses ==
    {[exc |-> TRUE, status |-> 0, parsable |-> FALSE, success |-> "absent", file_id |-> None]}
    \cup [exc : {FALSE}, status : {500}, parsable : BOOLEAN,
          success : {"absent"}, file_id : {None}]
    \cup {[exc |-> FALSE, status |-> 200, parsable |-> FALSE, success |-> "absent", file_id |-> None]}
    \cup [exc : {FALSE}, status : {200}, parsable : {TRUE},
          success : {"absent", "false"}, file_id : {None}]
    \cup [exc : {FALSE}, status : {200}, parsable : {TRUE},
          success : {"true"}, file_id : FileIdAnswers]

\* GET /documentation/{file_id}: raises, or returns a status code.
ExistsResponses ==
    {[exc |-> TRUE, status |-> 0]} \cup [exc : {FALSE}, status : {200, 201, 404}]

\* GET /status/{file_id}: raises, or returns a status with a body that is JSON
\* or not; a JSON body may carry a truthy "error".
ProbeResponses ==
    {[exc |-> TRUE, status |-> 0, parsable |-> FALSE, error |-> FALSE]}
    \cup [exc : {FALSE}, status : {200, 500}, parsable : {FALSE}, error : {FALSE}]
    \cup [exc : {FALSE}, status : {200}, parsable : {TRUE}, error : BOOLEAN]

\* GET /download/{file_id}?format=pdf: raises, or returns a status and bytes
\* (a 404 carries an error body; a 200 may carry no bytes at all).
PdfResponses ==
    {[exc |-> TRUE, status |-> 0, content |-> ""]}
    \cup {[exc |-> FALSE, status |-> 404, content |-> "Not Found"]}
    \cup [exc : {FALSE}, status : {200}, content : {"", "%PDF-1.4"}]

\* Placeholders for a request that was not made.
NoProbe == [exc |-> FALSE, status |-> 0, parsable |-> FALSE, error |-> FALSE]
NoPdf == [exc |-> FALSE, status |-> 0, content |-> ""]

----------------------------------------------------------------------------
(* Helper functions, lines 62-165.                                         *)

\* upload_and_process_file with "return result" reached whatever the success
\* flag says (the else branch of line 93 lost).
upload_and_process_file_NoFlagCheck(uploaded_file, doc_type, doc_level, resp) ==
    IF resp.exc \/ resp.status # HTTP_OK \/ ~resp.parsable
    THEN [posted |-> TRUE, is_none |-> TRUE, file_id |-> None, error |-> TRUE]
    ELSE [posted |-> TRUE, is_none |-> FALSE, file_id |-> resp.file_id, error |-> FALSE]

\* upload_and_process_file: always sends the POST (line 74), nothing is
\* checked before it.  Returns the parsed body (is_none = FALSE, with its
\* "file_id") or None; error: st.error was called.
upload_and_process_file(uploaded_file, doc_type, doc_level, resp) ==
    IF resp.exc
    THEN \* line 103: requests.post raised
         [posted |-> TRUE, is_none |-> TRUE, file_id |-> None, error |-> TRUE]
    ELSE IF resp.status = HTTP_OK
    THEN IF ~resp.parsable
         THEN \* line 87: response.json() raises, caught at line 103
              [posted |-> TRUE, is_none |-> TRUE, file_id |-> None, error |-> TRUE]
         ELSE IF resp.success = "true"
         THEN \* line 92
              [posted |-> TRUE, is_none |-> FALSE, file_id |-> resp.file_id, error |-> FALSE]
         ELSE \* lines 94-95
              [posted |-> TRUE, is_none |-> TRUE, file_id |-> None, error |-> TRUE]
    ELSE \* lines 97-102
         [posted |-> TRUE, is_none |-> TRUE, file_id |-> None, error |-> TRUE]

\* The diagnostics of the best-effort status query, lines 120-130: "status"
\* (the three progress lines), "status_error" (plus st.error), "failed"
\* (line 130) or "none" (a non-200 answer prints nothing).
StatusDiag(probe) ==
    IF probe.exc THEN "failed"
    ELSE IF probe.status # HTTP_OK THEN "none"
    ELSE IF ~probe.parsable THEN "failed"
    ELSE IF probe.error THEN "status_error"
    ELSE "status"

\* check_documentation_exists treating every 2xx answer as ready.
check_documentation_exists_Any2xx(file_id, exists, probe) ==
    IF exists.exc
    THEN [ret |-> FALSE, raised |-> FALSE, probed |-> FALSE, diag |-> "error"]
    ELSE IF exists.status \in 200..299
    THEN [ret |-> TRUE, raised |-> FALSE, probed |-> FALSE, diag |-> "exists"]
    ELSE [ret |-> FALSE, raised |-> FALSE, probed |-> TRUE, diag |-> StatusDiag(probe)]

\* check_documentation_exists taking a clean progress answer for readiness.
check_documentation_exists_TrustProbe(file_id, exists, probe) ==
    IF exists.exc
    THEN [ret |-> FALSE, raised |-> FALSE, probed |-> FALSE, diag |-> "error"]
    ELSE IF exists.status = HTTP_OK
    THEN [ret |-> TRUE, raised |-> FALSE, probed |-> FALSE, diag |-> "exists"]
    ELSE [ret |-> StatusDiag(probe) = "status", raised |-> FALSE,
          probed |-> TRUE, diag |-> StatusDiag(probe)]

\* check_documentation_exists: ret is the returned boolean, raised whether an
\* exception leaves the function, probed whether GET /status was sent.
check_documentation_exists(file_id, exists, probe) ==
    IF exists.exc
    THEN \* lines 132-134
         [ret |-> FALSE, raised |-> FALSE, probed |-> FALSE, diag |-> "error"]
    ELSE IF exists.status = HTTP_OK
    THEN \* lines 114-116
         [ret |-> TRUE, raised |-> FALSE, probed |-> FALSE, diag |-> "exists"]
    ELSE \* lines 117-131: every failure of the probe is caught at line 129
         [ret |-> FALSE, raised |-> FALSE, probed |-> TRUE, diag |-> StatusDiag(probe)]

\* get_pdf_content without the status check of line 140.
get_pdf_content_NoStatusCheck(file_id, pdf) ==
    IF pdf.exc THEN None ELSE pdf.content

\* get_pdf_content: the body of a 200 answer, None otherwise.
get_pdf_content(file_id, pdf) ==
    IF pdf.exc THEN None
    ELSE IF pdf.status = HTTP_OK THEN pdf.content
    ELSE None

\* get_document_download_url dropping its format argument.
get_document_download_url_PdfOnly(file_id, format) ==
    [base |-> API_BASE_URL, path |-> "/download/", file_id |-> file_id, format |-> "pdf"]

\* get_document_download_url: the parts of the f-string of line 148.
get_document_download_url(file_id, format) ==
    [base |-> API_BASE_URL, path |-> "/download/", file_id |-> file_id, format |-> format]

----------------------------------------------------------------------------
(* State.                                                                  *)

NoUpload ==
    [active |-> FALSE, file |-> [name |-> "demo.mp3", size |-> 3],
     resp |-> [exc |-> FALSE, status |-> 0, parsable |-> FALSE,
               success |-> "absent", file_id |-> None],
     posted |-> FALSE, is_none |-> TRUE, file_id |-> None, error |-> FALSE,
     before |-> <<>>]

NoShown ==
    [called |-> FALSE, index |-> 0, file_id |-> None, before |-> "none",
     exists |-> [exc |-> FALSE, status |-> 0], probe |-> NoProbe, pdf |-> NoPdf,
     ready |-> FALSE, raised |-> FALSE, diag |-> "none",
     requests |-> {}, links |-> {}, preview |-> None, warning |-> FALSE, info |-> FALSE]

Init ==
    /\ uploaded_files = <<>>
    /\ pc = "idle"
    /\ idx = 0
    /\ upload = NoUpload
    /\ shown = NoShown

----------------------------------------------------------------------------
(* The script.                                                             *)

\* The record appended at lines 221-227 (upload_time, a display-only
\* timestamp that nothing reads, is left out).
NewRecord(file_id, uploaded_file, doc_type, doc_level) ==
    [file_id |-> file_id, filename |-> uploaded_file.name,
     doc_type |-> doc_type, doc_level |-> doc_level]

\* The handler inserting the new record in front of the list.
AppendResult_Prepend(files, result, uploaded_file, doc_type, doc_level) ==
    IF ~result.is_none
    THEN <<NewRecord(result.file_id, uploaded_file, doc_type, doc_level)>> \o files
    ELSE files

\* The list after the Process File handler got `result`, lines 219-227.
AppendResult(files, result, uploaded_file, doc_type, doc_level) ==
    IF ~result.is_none
    THEN Append(files, NewRecord(result.file_id, uploaded_file, doc_type, doc_level))
    ELSE files

\* The selectbox values a click is explored with.  They are form fields of
\* the POST and reach the state only through an appended record, so for a
\* submission that appends nothing one selection stands for all nine.
Selections(appends) ==
    IF appends THEN DocTypes \X DocLevels ELSE {<<"BRD", "Simple">>}

\* A click on "Process File" with a file in the uploader, lines 215-228.
\* upload.before is the list as the handler found it.  The click starts a
\* new script run, so nothing of the previous page is left when the handler
\* runs.
ProcessFile ==
    /\ pc = "idle"
    /\ \E uploaded_file \in UploadedFiles, resp \in UploadResponses :
         \E sel \in Selections(~upload_and_process_file(uploaded_file, "BRD", "Simple", resp).is_none) :
            LET doc_type == sel[1]
                doc_level == sel[2]
                result == upload_and_process_file(uploaded_file, doc_type, doc_level, resp)
            IN  /\ (~result.is_none) => Len(uploaded_files) < MaxFiles
                /\ uploaded_files' =
                       AppendResult(uploaded_files, result, uploaded_file, doc_type, doc_level)
                /\ upload' = [active |-> TRUE, file |-> uploaded_file, resp |-> resp,
                              posted |-> result.posted, is_none |-> result.is_none,
                              file_id |-> result.file_id, error |-> result.error,
                              before |-> uploaded_files]
    /\ pc' = "uploaded"
    /\ shown' = NoShown
    /\ UNCHANGED idx

\* The script reaches line 231: after the handler, or on a rerun caused by
\* "Refresh Status" (line 238) or any other widget.  An empty list shows the
\* "No files" note (line 234) and the run ends.
DisplayBegin ==
    /\ pc \in {"idle", "uploaded"}
    /\ upload' = NoUpload
    /\ IF uploaded_files = <<>>
       THEN /\ pc' = "idle"
            /\ idx' = 0
            /\ shown' = [NoShown EXCEPT !.info = TRUE]
       ELSE /\ pc' = "display"
            /\ idx' = 1
            /\ shown' = shown
    /\ UNCHANGED uploaded_files

\* What an iteration rendered for its record: the preview with the download
\* buttons (lines 254-266), the warning (line 268) or the not-ready note
\* (line 271).
Kind(s) ==
    IF ~s.called THEN "none"
    ELSE IF s.warning THEN "warning"
    ELSE IF s.ready THEN "preview"
    ELSE "not_ready"

\* A request without a query string, as the f-strings of lines 111 and 121
\* build it.
Request(path, file_id) ==
    [base |-> API_BASE_URL, path |-> path, file_id |-> file_id, format |-> ""]

\* The iteration fetching the pdf before it looks at the readiness.
IterationRequests_EagerPdf(file_id, chk) ==
    {Request("/documentation/", file_id)}
    \cup (IF chk.probed THEN {Request("/status/", file_id)} ELSE {})
    \cup {get_document_download_url(file_id, "pdf")}

\* The requests one iteration sends: the existence check (line 111), the
\* status query after a non-200 answer (line 121), the pdf fetch once
\* check_documentation_exists returned True (lines 249-251, 139).
IterationRequests(file_id, chk) ==
    {Request("/documentation/", file_id)}
    \cup (IF chk.probed THEN {Request("/status/", file_id)} ELSE {})
    \cup (IF chk.ret THEN {get_document_download_url(file_id, "pdf")} ELSE {})

\* The body of the loop, lines 249-271, once check_documentation_exists gave
\* chk.  before: what the previous iteration rendered, when it was for the
\* same file_id (the loop itself reads nothing of it).
RenderOutcome(prev, i, file_info, exists, probe, pdf, chk) ==
    LET file_id == file_info.file_id
        pdf_content == IF chk.ret THEN get_pdf_content(file_id, pdf) ELSE None
    IN  [called |-> TRUE, index |-> i, file_id |-> file_id,
         before |-> IF prev.file_id = file_id THEN Kind(prev) ELSE "none",
         exists |-> exists,
         probe |-> IF chk.probed THEN probe ELSE NoProbe,
         pdf |-> IF chk.ret THEN pdf ELSE NoPdf,
         ready |-> chk.ret, raised |-> chk.raised, diag |-> chk.diag,
         requests |-> IterationRequests(file_id, chk),
         links |-> IF chk.ret /\ Truthy(pdf_content)
                   THEN {get_document_download_url(file_id, f) : f \in Formats}
                   ELSE {},
         preview |-> IF chk.ret /\ Truthy(pdf_content) THEN pdf_content ELSE None,
         warning |-> chk.ret /\ ~Truthy(pdf_content),
         info |-> ~chk.ret]

\* An iteration that keeps a record ready once it was shown ready.
Render_StickyReady(prev, i, file_info, exists, probe, pdf) ==
    LET chk == check_documentation_exists(file_info.file_id, exists, probe)
    IN  RenderOutcome(prev, i, file_info, exists, probe, pdf,
            [chk EXCEPT !.ret = chk.ret \/ (prev.file_id = file_info.file_id /\ prev.ready)])

\* One iteration of the display loop for file_info, lines 242-271.
Render(prev, i, file_info, exists, probe, pdf) ==
    RenderOutcome(prev, i, file_info, exists, probe, pdf,
        check_documentation_exists(file_info.file_id, exists, probe))

\* The answers that can follow an existence answer: GET /status is only sent
\* after a non-200 answer (line 121), GET /download only after a 200 (line 251).
ProbeAnswers(exists) ==
    IF ~exists.exc /\ exists.status # HTTP_OK THEN ProbeResponses ELSE {NoProbe}

PdfAnswers(exists) ==
    IF ~exists.exc /\ exists.status = HTTP_OK THEN PdfResponses ELSE {NoPdf}

\* One iteration of the loop of line 241.
DisplayRecord ==
    /\ pc = "display"
    /\ idx <= Len(uploaded_files)
    /\ \E exists \in ExistsResponses :
         \E probe \in ProbeAnswers(exists), pdf \in PdfAnswers(exists) :
            shown' = Render(shown, idx, uploaded_files[idx], exists, probe, pdf)
    /\ idx' = idx + 1
    /\ UNCHANGED <<uploaded_files, pc, upload>>

\* The loop is exhausted: the script run ends and the app waits for input.
DisplayEnd ==
    /\ pc = "display"
    /\ idx > Len(uploaded_files)
    /\ pc' = "idle"
    /\ UNCHANGED <<uploaded_files, idx, upload, shown>>

Next == ProcessFile \/ DisplayBegin \/ DisplayRecord \/ DisplayEnd

Spec == Init /\ [][Next]_vars

----------------------------------------------------------------------------
(* Properties.                                                             *)

\* The backend answered the POST with status 200 and success = true.
UploadSucceeded(resp) ==
    ~resp.exc /\ resp.status = 200 /\ resp.parsable /\ resp.success = "true"

\* The link "{base}/download/{fileId}?format={format}".
DownloadLink(file_id, format) ==
    [base |-> "http://localhost:7000", path |-> "/download/",
     file_id |-> file_id, format |-> format]

\* The /download requests among the requests of an iteration.
Downloads(requests) == {r \in requests : r.path = "/download/"}

\* The existence check of the latest iteration was answered with status 200.
Exists200 == ~shown.exists.exc /\ shown.exists.status = 200

\* The pdf fetch of the latest iteration was answered with status 200.
Pdf200 == ~shown.pdf.exc /\ shown.pdf.status = 200

\* s is an initial part of t.
IsPrefix(s, t) == Len(s) <= Len(t) /\ SubSeq(t, 1, Len(s)) = s

\* A step of the display loop is about to be taken.
InLoop == pc = "display" /\ idx <= Len(uploaded_files)

\* C1: after a submission answered with status 200 and success = true the
\* session list is one record longer than the handler found it, and the new
\* record's fileId is a non-empty value.
C1_SuccessAddsRecordWithFileId ==
    (pc = "uploaded" /\ UploadSucceeded(upload.resp)) =>
        /\ Len(uploaded_files) = Len(upload.before) + 1
        /\ Truthy(uploaded_files[Len(uploaded_files)].file_id)

\* C2: after a submission that failed (the call raised, the status was not
\* 200, the body was unparsable, or the success flag was false or absent) the
\* session list is the list the handler found, nothing was returned and the
\* error was shown.
C2_FailedSubmissionKeepsList ==
    (pc = "uploaded" /\ ~UploadSucceeded(upload.resp)) =>
        /\ uploaded_files = upload.before
        /\ upload.is_none
        /\ upload.error

\* C2 happens: a failed submission (status 200, success false) on a list that
\* already holds a record.
C2_Witness ==
    /\ pc = "uploaded"
    /\ upload.resp.status = 200 /\ upload.resp.success = "false"
    /\ Len(uploaded_files) >= 1

\* C3 as claimed: an iteration for a fileId that the previous iteration for
\* the same fileId showed ready shows it ready again, whatever the backend
\* answers.
C3_ReadyNeverReverts ==
    (shown.called /\ shown.before \in {"preview", "warning"}) => shown.ready

\* C3 as amended: for a fileId already shown ready, a later call returns true
\* exactly when the existence check it issues is answered with status 200.
C3_ReadyFollowsLatestCheck ==
    (shown.called /\ shown.before \in {"preview", "warning"}) =>
        (shown.ready <=> Exists200)

\* C3 happens: the first record, shown ready by the previous pass, is shown
\* ready again by the next pass.
C3_Witness ==
    /\ shown.called /\ shown.index = 1
    /\ shown.before = "preview"
    /\ shown.ready

\* C4: check_documentation_exists returns true exactly when its GET
\* /documentation/{fileId} is answered with status 200, sends that request
\* once, and raises nothing.
C4_ReadyIffStatus200 ==
    shown.called =>
        /\ shown.ready = (shown.exists.exc = FALSE /\ shown.exists.status = 200)
        /\ ~shown.raised
        /\ Cardinality({r \in shown.requests : r.path = "/documentation/"}) = 1

\* C4 happens: a 2xx answer other than 200 gave not-ready.
C4_Witness ==
    shown.called /\ ~shown.exists.exc /\ shown.exists.status = 201 /\ ~shown.ready

\* C5: a submission of an empty file sends no POST and creates no record.
C5_EmptyFileSendsNothing ==
    (pc = "uploaded" /\ upload.file.size = 0) =>
        /\ ~upload.posted
        /\ upload.is_none
        /\ uploaded_files = upload.before

\* C6: every step leaves the session list an extension of what it was: no
\* record is removed, reordered or changed.
C6_AppendOnly == [][IsPrefix(uploaded_files, uploaded_files')]_vars

\* C6 happens: a record was appended to a list that already held one.
C6_Witness ==
    pc = "uploaded" /\ Len(upload.before) >= 1 /\ uploaded_files # upload.before

\* C7: an iteration whose existence check is answered with a status other
\* than 200 gives not-ready whatever GET /status/{fileId} does, raises
\* nothing, leaves the session list alone and moves on to the next record.
C7_StatusProbeBestEffort ==
    [][(InLoop /\ ~shown'.exists.exc /\ shown'.exists.status # 200) =>
          /\ ~shown'.ready /\ ~shown'.raised /\ shown'.info
          /\ shown'.diag \in {"status", "status_error", "failed", "none"}
          /\ uploaded_files' = uploaded_files
          /\ pc' = "display" /\ idx' = idx + 1]_vars

\* C7 happens: the status query raised for the first record and a second
\* record is still to be checked in this pass.
C7_Witness ==
    /\ shown.called /\ shown.index = 1 /\ shown.exists.status = 404
    /\ shown.probe.exc
    /\ InLoop /\ idx = 2

\* C8 as claimed: an iteration with existence status 200 and a failed pdf
\* fetch shows the warning and no preview, keeps the list and moves on; an
\* iteration for a fileId last shown with the warning whose pdf fetch is
\* answered with status 200 shows the preview.
C8_PreviewAfterAnySuccessfulFetch ==
    [][InLoop =>
          /\ (shown'.ready /\ ~(shown'.pdf.exc = FALSE /\ shown'.pdf.status = 200)) =>
                /\ shown'.warning /\ shown'.preview = None
                /\ uploaded_files' = uploaded_files
                /\ pc' = "display" /\ idx' = idx + 1
          /\ (shown'.before = "warning" /\ shown'.ready
                /\ shown'.pdf.exc = FALSE /\ shown'.pdf.status = 200) =>
                shown'.preview # None]_vars

\* C8 as amended: as claimed, with the preview shown when the later pdf fetch
\* is answered with status 200 and a non-empty body.
C8_PreviewAfterNonEmptyFetch ==
    [][InLoop =>
          /\ (shown'.ready /\ ~(shown'.pdf.exc = FALSE /\ shown'.pdf.status = 200)) =>
                /\ shown'.warning /\ shown'.preview = None
                /\ uploaded_files' = uploaded_files
                /\ pc' = "display" /\ idx' = idx + 1
          /\ (shown'.before = "warning" /\ shown'.ready
                /\ shown'.pdf.exc = FALSE /\ shown'.pdf.status = 200
                /\ shown'.pdf.content # "") =>
                /\ shown'.preview = shown'.pdf.content
                /\ ~shown'.warning]_vars

\* C8 happens: the first record, shown with the warning by the previous
\* pass, is shown with its preview by the next pass.
C8_Witness ==
    /\ shown.called /\ shown.index = 1
    /\ shown.before = "warning"
    /\ shown.preview = "%PDF-1.4"

\* C9 as claimed: every iteration whose existence check is answered with
\* status 200 renders the docx, html and json links.
C9_LinksWheneverReady ==
    (shown.called /\ Exists200) =>
        {DownloadLink(shown.file_id, f) : f \in {"docx", "html", "json"}} \subseteq shown.links

\* C9 as amended: the four links are rendered exactly in the iterations whose
\* existence check is answered with status 200 and whose pdf fetch is
\* answered with status 200 and a non-empty body; otherwise no link is.
C9_LinksWhenPdfFetched ==
    shown.called =>
        shown.links = IF Exists200 /\ Pdf200 /\ shown.pdf.content # ""
                      THEN {DownloadLink(shown.file_id, f) :
                               f \in {"pdf", "docx", "html", "json"}}
                      ELSE {}

\* C9 happens: a ready record was rendered with its links.
C9_Witness ==
    shown.called /\ Exists200 /\ DownloadLink(shown.file_id, "docx") \in shown.links

\* C10: the only /download request an iteration sends is the one for pdf, for
\* its own record, and only when its existence check was answered with 200.
C10_OnlyPdfFetchedWhenReady ==
    shown.called =>
        /\ Downloads(shown.requests) \subseteq {DownloadLink(shown.file_id, "pdf")}
        /\ (Downloads(shown.requests) # {}) => Exists200
        /\ ~shown.ready => Downloads(shown.requests) = {}

\* C10 happens: one iteration fetched the pdf of a ready record.
C10_Witness ==
    shown.called /\ Exists200 /\ Downloads(shown.requests) # {}

====
